---- MODULE Spec2Model ----
(***************************************************************************)
(* Model of the notification service: the notification retry state machine *)
(* (app/services/notification_service.py) and the batching publisher       *)
(* (app/core/rabbitmq.py).                                                 *)
(*                                                                         *)
(* Spec     the service's handlers, each run to completion: create,        *)
(*          process (fed from the broker queue), update_status, and the    *)
(*          flush timer.                                                   *)
(* SpecDirect  the same handlers, with process_notification called on any  *)
(*          dictionary, as a caller other than the queue consumer may do.  *)
(* SpecPub  the publisher at the granularity of its await points: callers  *)
(*          of publish_message, the flush-timer task, the buffer lock.     *)
(* SpecQuery  create, update_status and get_user_notifications.            *)
(* SpecConn the broker connection: connect and its backoff, the tasks it   *)
(*          creates, the connection monitor, close, the broker going down  *)
(*          and coming back.  SpecHealth adds the health check.            *)
(* SpecOutage  the publisher of a started application together with the   *)
(*          connection: the broker goes down while a flush is in progress. *)
(***************************************************************************)
EXTENDS Integers, Sequences, FiniteSets, TLC

\* ------------------------------------------------------------------ bounds
MaxNotifications == 2   \* notifications created in one run
MaxTime == 5            \* readings of the clock (datetime.utcnow) in one run
BatchSize == 3          \* value configured for settings.RABBITMQ_BATCH_SIZE
MaxMessages == 4        \* publish_message calls in one run of the publisher
MaxDirectTime == 3      \* readings of the clock in one run of SpecDirect
MaxLimit == 2           \* largest limit passed to get_user_notifications
MaxSkip == 2            \* largest skip passed to get_user_notifications
MaxOutages == 1         \* times the broker goes down in one run
MaxQueryTime == 2       \* readings of the clock in one run of SpecQuery
MaxOutageMessages == 2  \* publish_message calls in one run of SpecOutage
MaxCloseMessages == 3   \* publish_message calls in one run of SpecClose

\* --------------------------------------------------------- program constants
\* NotificationService.max_retries
service_max_retries == 3
\* NotificationService.retry_delay
retry_delay == 60
\* an Optional field that is unset
None == 0
\* a key that a stored document does not have
Absent == -1
\* max_retries of RabbitMQ._publish_batch
batch_max_retries == 3
\* defaults of RabbitMQ.connect(max_retries, initial_delay), and the cap it
\* puts on the delay
connect_max_retries == 5
connect_initial_delay == 1
max_delay == 30

Ids == 1..MaxNotifications
Users == {"u1", "u2"}
Statuses == {"pending", "sent", "failed"}
\* what the channel-specific transport does with one delivery
Transports == {"delivered", "refused", "error"}

VARIABLES
    store,          \* db.notifications: id -> document
    now,            \* the clock read by datetime.utcnow()
    message_batch,  \* RabbitMQ._message_batch
    broker,         \* the durable queue at the broker, in arrival order
    dropped,        \* messages given up on by a flush
    sends,          \* id -> number of _send_notification invocations
    delivered,      \* id -> number of deliveries that succeeded
    sent_writes,    \* id -> number of writes of sent_at by _mark_as_sent
    failed_writes,  \* id -> number of writes of failed_at by _mark_as_failed
    last,           \* the last handler call and what it did
    result,         \* the Notification objects the last handler call returned
    batch_lock,     \* RabbitMQ._batch_lock: the task holding it, or "free"
    pc,             \* task -> where it stands in publish_message / _process_batch
    arg,            \* caller -> the dictionary passed to publish_message
    idx,            \* task -> position of _publish_batch's outer loop
    attempt,        \* task -> attempt number of _publish_batch's inner loop
    call,           \* caller -> what its current or last publish_message call did
    flushes,        \* the flushes completed so far, in order: who made it,
                    \* what it covered, and the position in the buffer of the
                    \* message whose publish_message call made it (0: the timer)
    ticked,         \* the flush timer has woken up at least once
    returned,       \* number of publish_message calls that have returned
    connection,     \* RabbitMQ.connection: "none", "open" or "closed" (is_closed)
    broker_up,      \* the broker accepts connections
    outages,        \* number of times the broker has gone down
    kinds,          \* the tasks connect has created, in order: "batch" for a
                    \* _process_batch loop, "monitor" for a _monitor_connection loop
    proc,           \* 0 (the application) and each created task -> where it
                    \* stands, and the locals of its connect invocation
    batch_task,     \* RabbitMQ._batch_task: a task, or None
    connection_task \* RabbitMQ._connection_task: a task, or None

svcVars == <<store, sends, delivered, sent_writes, failed_writes, last, result>>
queueVars == <<now, message_batch, broker, dropped>>
pubVars == <<batch_lock, pc, arg, idx, attempt, call, flushes, ticked, returned>>

connVars == <<connection, broker_up, outages, kinds, proc, batch_task, connection_task>>

vars == <<svcVars, queueVars, pubVars, connVars>>

Callers == {"c1", "c2"}
Timer == "timer"
Tasks == Callers \cup {Timer}

\* ------------------------------------------------------------- documents
IsSet(t) == t \notin {None, Absent}

\* doc.get(key): None for a key the document does not have
Get(v) == IF v = Absent THEN None ELSE v

\* the document create_notification builds
NotificationDoc(id, user, t) ==
    [id |-> id, user_id |-> user, title |-> "title", message |-> "message",
     type |-> IF user = "u1" THEN "email" ELSE "sms", metadata |-> <<>>,
     status |-> "pending", created_at |-> t,
     sent_at |-> Absent, failed_at |-> Absent, retry_count |-> 0,
     max_retries |-> service_max_retries, last_retry |-> Absent]

\* Notification(id=..., status=..., ...): the model object a handler returns
\* for a document
Notification(doc) ==
    [id |-> doc.id, user_id |-> doc.user_id, title |-> doc.title,
     message |-> doc.message, type |-> doc.type, metadata |-> doc.metadata,
     status |-> doc.status,
     created_at |-> doc.created_at, sent_at |-> Get(doc.sent_at),
     failed_at |-> Get(doc.failed_at), retry_count |-> doc.retry_count,
     max_retries |-> doc.max_retries]

\* db.notifications.insert_one(doc)
InsertNothing(st, doc) == st
InsertOne(st, doc) == [x \in DOMAIN st \cup {doc.id} |-> IF x = doc.id THEN doc ELSE st[x]]

\* the dictionary create_notification hands to publish_message, as far as
\* process_notification reads it back
MessageBody(doc) == [id |-> doc.id, retry_count |-> doc.retry_count]

\* Message(body=json.dumps(message), timestamp=utcnow)
Message(body, t) == [body |-> body, timestamp |-> t]

\* update_one({"id": id}, {"$set": ...}) matches nothing when id is absent
UpdateOne(st, id, doc) == IF id \in DOMAIN st THEN [st EXCEPT ![id] = doc] ELSE st

\* a success update that also counts the delivery as an attempt
MarkAsSentCountsAttempt(st, id, t) ==
    IF id \in DOMAIN st
    THEN UpdateOne(st, id, [st[id] EXCEPT !.status = "sent", !.sent_at = t,
                                          !.retry_count = @ + 1])
    ELSE st

MarkAsSent(st, id, t) ==
    IF id \in DOMAIN st
    THEN UpdateOne(st, id, [st[id] EXCEPT !.status = "sent", !.sent_at = t])
    ELSE st

MarkAsFailed(st, id, t) ==
    IF id \in DOMAIN st
    THEN UpdateOne(st, id, [st[id] EXCEPT !.status = "failed", !.failed_at = t])
    ELSE st

RECURSIVE Pow2(_)
Pow2(k) == IF k = 0 THEN 1 ELSE 2 * Pow2(k - 1)

\* _schedule_retry: the count it computes from the message, and the delay
RetryCount(msg) == msg.retry_count + 1
RetryDelay(msg) == retry_delay * Pow2(RetryCount(msg))

ScheduleRetryCount(msg) == RetryCount(msg)

ScheduleRetryUpdate(st, msg, t) ==
    IF msg.id \in DOMAIN st
    THEN UpdateOne(st, msg.id, [st[msg.id] EXCEPT !.retry_count = ScheduleRetryCount(msg),
                                                  !.last_retry = t,
                                                  !.status = "pending"])
    ELSE st

\* _schedule_retry requeues the dictionary it was given
RequeuedMessage(msg) == msg

\* _send_notification: True when the transport delivered; its except clause
\* turns an error of the transport into False
SendNotification(transport) == transport = "delivered"

\* -------------------------------------------------- publisher, run to completion
\* One message of _publish_batch's loop: the broker fails the first `failures`
\* attempts; the loop makes attempts 1..batch_max_retries and stops at the
\* first that succeeds.  TRUE when the message reached the broker.
RECURSIVE PublishAttempts(_, _)
PublishAttempts(n, failures) ==
    IF n > batch_max_retries THEN FALSE
    ELSE IF n > failures THEN TRUE
    ELSE PublishAttempts(n + 1, failures)

\* the broker's behaviour offered to a flush of n messages: the number of
\* failing attempts at each position
FailureCounts == {0, batch_max_retries}
FlushInputs(n) == [1..n -> FailureCounts]

\* the number of messages publish_message flushes when called on buffer b
FlushedBy(b) == IF Len(b) + 1 >= BatchSize THEN Len(b) + 1 ELSE 0

RECURSIVE Published(_, _, _)
Published(b, fl, i) ==
    IF i > Len(b) THEN <<>>
    ELSE (IF PublishAttempts(1, fl[i]) THEN <<b[i]>> ELSE <<>>) \o Published(b, fl, i + 1)

RECURSIVE GivenUp(_, _, _)
GivenUp(b, fl, i) ==
    IF i > Len(b) THEN {}
    ELSE (IF PublishAttempts(1, fl[i]) THEN {} ELSE {b[i]}) \cup GivenUp(b, fl, i + 1)

\* _publish_batch run to completion on buffer b
PublishBatch(b, fl) ==
    IF b = <<>> THEN [batch |-> b, out |-> <<>>, drop |-> {}]
    ELSE [batch |-> <<>>, out |-> Published(b, fl, 1), drop |-> GivenUp(b, fl, 1)]

\* publish_message run to completion on buffer b
PublishMessage(b, body, t, fl) ==
    LET b1 == Append(b, Message(body, t))
    IN  IF Len(b1) >= BatchSize THEN PublishBatch(b1, fl)
        ELSE [batch |-> b1, out |-> <<>>, drop |-> {}]

NoPublish(b) == [batch |-> b, out |-> <<>>, drop |-> {}]

\* ------------------------------------------------------- process_notification
\* notification.get("retry_count", 0) >= self.max_retries
MaxRetriesExceededOffByOne(msg) == msg.retry_count > service_max_retries
MaxRetriesNotChecked(msg) == FALSE
MaxRetriesExceeded(msg) == msg.retry_count >= service_max_retries

\* The try block.  db1: the store update it makes succeeds.
ProcessTry(st, msg, transport, db1, t) ==
    IF MaxRetriesExceeded(msg)
    THEN IF db1
         THEN [store |-> MarkAsFailed(st, msg.id, t), exc |-> FALSE, ret |-> "False",
               sent |-> FALSE, requeue |-> FALSE, wrote |-> "failed"]
         ELSE [store |-> st, exc |-> TRUE, ret |-> "raised",
               sent |-> FALSE, requeue |-> FALSE, wrote |-> "none"]
    ELSE IF SendNotification(transport)
    THEN IF db1
         THEN [store |-> MarkAsSent(st, msg.id, t), exc |-> FALSE, ret |-> "True",
               sent |-> TRUE, requeue |-> FALSE, wrote |-> "sent"]
         ELSE [store |-> st, exc |-> TRUE, ret |-> "raised",
               sent |-> TRUE, requeue |-> FALSE, wrote |-> "none"]
    ELSE IF db1
         THEN [store |-> ScheduleRetryUpdate(st, msg, t), exc |-> FALSE, ret |-> "False",
               sent |-> TRUE, requeue |-> TRUE, wrote |-> "retry"]
         ELSE [store |-> st, exc |-> TRUE, ret |-> "raised",
               sent |-> TRUE, requeue |-> FALSE, wrote |-> "none"]

\* The except clause.  db2: its _mark_as_failed succeeds; when it does not,
\* the exception leaves process_notification.
ProcessNotification(st, msg, transport, db1, db2, t) ==
    LET r == ProcessTry(st, msg, transport, db1, t)
    IN  IF ~r.exc THEN r
        ELSE IF db2
        THEN [r EXCEPT !.store = MarkAsFailed(st, msg.id, t), !.ret = "False",
                       !.wrote = "failed"]
        ELSE r

\* ---------------------------------------------------------------- update_status
\* an update that also starts the retries over
UpdateStatusResetsCount(doc, s, t) ==
    [doc EXCEPT !.status = s,
                !.sent_at = IF s = "sent" THEN t ELSE None,
                !.failed_at = IF s = "failed" THEN t ELSE None,
                !.retry_count = 0]

UpdateStatusDoc(doc, s, t) ==
    [doc EXCEPT !.status = s,
                !.sent_at = IF s = "sent" THEN t ELSE None,
                !.failed_at = IF s = "failed" THEN t ELSE None]

\* result.modified_count of update_status's update_one
ModifiedCount(st, id, s, t) ==
    IF id \in DOMAIN st /\ UpdateStatusDoc(st[id], s, t) # st[id] THEN 1 ELSE 0

\* -------------------------------------------------------------------- actions
Bump(f, id) == IF id \in DOMAIN f THEN [f EXCEPT ![id] = @ + 1] ELSE f

Call(op, id, rc, transport, ret, wrote, published) ==
    [op |-> op, id |-> id, rc |-> rc, transport |-> transport, ret |-> ret,
     wrote |-> wrote, published |-> published]

Extend(f, id, v) == [x \in DOMAIN f \cup {id} |-> IF x = id THEN v ELSE f[x]]

\* create_notification's try/except: it returns when neither insert_one nor
\* publish_message raised, and raises HTTPException(500) otherwise
CreateResultIgnoresPublish(dbok, pubok) == IF dbok THEN "ok" ELSE "500"
CreateResult(dbok, pubok) == IF dbok /\ pubok THEN "ok" ELSE "500"

\* dbok: insert_one succeeds.  pubok: publish_message does not raise; when
\* it raises, it does so building the Message, before it appends.  When
\* insert_one raises, publish_message is not called.
create_notification(user, dbok, pubok) ==
    /\ now < MaxTime
    /\ Cardinality(DOMAIN store) < MaxNotifications
    /\ dbok \/ pubok
    /\ \E fl \in FlushInputs(IF dbok /\ pubok THEN FlushedBy(message_batch) ELSE 0) :
       LET id == Cardinality(DOMAIN store) + 1
           t == now + 1
           doc == NotificationDoc(id, user, t)
           p == IF dbok /\ pubok
                THEN PublishMessage(message_batch, MessageBody(doc), t, fl)
                ELSE NoPublish(message_batch)
       IN  /\ now' = t
           /\ store' = IF dbok THEN InsertOne(store, doc) ELSE store
           /\ sends' = IF dbok THEN Extend(sends, id, 0) ELSE sends
           /\ delivered' = IF dbok THEN Extend(delivered, id, 0) ELSE delivered
           /\ sent_writes' = IF dbok THEN Extend(sent_writes, id, 0) ELSE sent_writes
           /\ failed_writes' = IF dbok THEN Extend(failed_writes, id, 0) ELSE failed_writes
           /\ message_batch' = p.batch
           /\ broker' = broker \o p.out
           /\ dropped' = dropped \cup p.drop
           /\ last' = Call("create", id, 0, "none", CreateResult(dbok, pubok),
                           IF dbok THEN "insert" ELSE "none",
                           IF dbok /\ pubok THEN 1 ELSE 0)
           /\ result' = IF CreateResult(dbok, pubok) = "ok"
                         THEN <<Notification(doc)>> ELSE <<>>
           /\ UNCHANGED <<pubVars, connVars>>

\* process_notification(msg); `queue` is what is left of the broker's queue
ProcessCall(msg, queue, transport, db1, db2) ==
    /\ now < MaxTime
    /\ db1 => db2
    /\ LET t == now + 1
           r == ProcessNotification(store, msg, transport, db1, db2, t)
       IN
       \E fl \in FlushInputs(IF r.requeue THEN FlushedBy(message_batch) ELSE 0) :
       LET p == IF r.requeue
                THEN PublishMessage(message_batch, RequeuedMessage(msg), t, fl)
                ELSE NoPublish(message_batch)
       IN  /\ now' = t
           /\ store' = r.store
           /\ sends' = IF r.sent THEN Bump(sends, msg.id) ELSE sends
           /\ delivered' = IF r.sent /\ SendNotification(transport)
                            THEN Bump(delivered, msg.id) ELSE delivered
           /\ sent_writes' = IF r.wrote = "sent" THEN Bump(sent_writes, msg.id)
                              ELSE sent_writes
           /\ failed_writes' = IF r.wrote = "failed" THEN Bump(failed_writes, msg.id)
                                ELSE failed_writes
           /\ message_batch' = p.batch
           /\ broker' = queue \o p.out
           /\ dropped' = dropped \cup p.drop
           /\ last' = Call("process", msg.id, msg.retry_count,
                           IF r.sent THEN transport ELSE "none", r.ret, r.wrote,
                           IF r.requeue THEN 1 ELSE 0)
           /\ result' = <<>>
           /\ UNCHANGED <<pubVars, connVars>>

\* the consumer hands the message at the head of the queue to process_notification
process_notification(transport, db1, db2) ==
    /\ broker # <<>>
    /\ ProcessCall(Head(broker).body, Tail(broker), transport, db1, db2)

\* process_notification called on a dictionary that names a stored
\* notification and carries any retry_count
process_notification_direct(id, rc, transport, db1, db2) ==
    /\ id \in DOMAIN store
    /\ ProcessCall([id |-> id, retry_count |-> rc], broker, transport, db1, db2)

\* update_status's failure paths build their HTTPException from
\* status.HTTP_404_NOT_FOUND / status.HTTP_500_INTERNAL_SERVER_ERROR, where
\* `status` is the method's own parameter (a NotificationStatus), which has
\* no such attribute
UpdateStatusResult(dbok, n) ==
    IF dbok /\ n # 0 THEN "ok" ELSE "AttributeError"

update_status(id, s, dbok) ==
    /\ now < MaxTime
    /\ LET t == now + 1
           n == IF dbok THEN ModifiedCount(store, id, s, t) ELSE 0
       IN  /\ now' = t
           /\ store' = IF dbok /\ id \in DOMAIN store
                        THEN UpdateOne(store, id, UpdateStatusDoc(store[id], s, t))
                        ELSE store
           /\ last' = Call("update_status", id, 0, "none", UpdateStatusResult(dbok, n),
                           IF ~dbok THEN "raised" ELSE IF n = 0 THEN "none" ELSE s, 0)
           /\ result' = IF UpdateStatusResult(dbok, n) = "ok"
                         THEN <<Notification(store'[id])>> ELSE <<>>
           /\ UNCHANGED <<message_batch, broker, dropped, sends, delivered,
                          sent_writes, failed_writes>>
           /\ UNCHANGED <<pubVars, connVars>>

\* ------------------------------------------------------ get_user_notifications
\* query = {"user_id": user_id}; if status: query["status"] = status
Matches(doc, user_id, status) ==
    /\ doc.user_id = user_id
    /\ status \in Statuses => doc.status = status

\* find(query): the documents that match
Find(st, user_id, status) ==
    {st[id] : id \in {x \in DOMAIN st : Matches(st[x], user_id, status)}}

\* .sort("created_at", -1): d may come before e
Ascending(d, e) == d.created_at <= e.created_at
Descending(d, e) == d.created_at >= e.created_at

RECURSIVE Sort(_)
Sort(docs) ==
    IF docs = {} THEN <<>>
    ELSE LET first == CHOOSE d \in docs : \A e \in docs : Descending(d, e)
         IN  <<first>> \o Sort(docs \ {first})

\* .skip(skip).limit(limit) of a cursor; limit is at least 1
Skip(q, skip) == SubSeq(q, skip + 1, Len(q))
Limit(q, limit) == SubSeq(q, 1, IF limit < Len(q) THEN limit ELSE Len(q))

\* the status filter of a call that passes none
NoFilter == "none"

\* dbok: the cursor can be read.  When it cannot, the except clause builds
\* its HTTPException from status.HTTP_500_INTERNAL_SERVER_ERROR, where
\* `status` is the method's own parameter, and that raises AttributeError.
get_user_notifications(user_id, limit, skip, status, dbok) ==
    /\ LET docs == Limit(Skip(Sort(Find(store, user_id, status)), skip), limit)
       IN  result' = IF dbok THEN [i \in 1..Len(docs) |-> Notification(docs[i])]
                     ELSE <<>>
    /\ last' = [op |-> "list", user_id |-> user_id, limit |-> limit, skip |-> skip,
                status |-> status, ret |-> IF dbok THEN "ok" ELSE "AttributeError"]
    /\ UNCHANGED <<store, sends, delivered, sent_writes, failed_writes>>
    /\ UNCHANGED <<queueVars, pubVars, connVars>>

\* one round of the flush timer's loop, run to completion
process_batch ==
    /\ message_batch # <<>>
    /\ \E fl \in FlushInputs(Len(message_batch)) :
       LET p == PublishBatch(message_batch, fl)
       IN  /\ message_batch' = p.batch
           /\ broker' = broker \o p.out
           /\ dropped' = dropped \cup p.drop
    /\ UNCHANGED <<store, now, sends, delivered, sent_writes, failed_writes, last,
                   result>>
    /\ UNCHANGED <<pubVars, connVars>>

\* ----------------------------------------- publisher, one step per await point
Bodies == {[id |-> 1, retry_count |-> 0]}
NoCall == [reached |-> FALSE, snapshot |-> <<>>, covered |-> <<>>]

\* len(cls._message_batch) >= settings.RABBITMQ_BATCH_SIZE
ThresholdAbove(b) == Len(b) > BatchSize
ThresholdEarly(b) == Len(b) >= BatchSize - 1
ThresholdNever(b) == FALSE
ThresholdReached(b) == Len(b) >= BatchSize

\* the flush timer's test: if cls._message_batch
TimerFlushesFullOnly(b) == Len(b) >= BatchSize
TimerFlushes(b) == b # <<>>

\* the except clause of one publish attempt: what follows a failed attempt
ReraiseOnLastAttempt(n) == IF n = batch_max_retries THEN "raise" ELSE "sleep"
OneMoreAttempt(n) == IF n = batch_max_retries + 1 THEN "give_up" ELSE "sleep"
OnPublishFailure(n) == IF n = batch_max_retries THEN "give_up" ELSE "sleep"

\* where a task goes when its call or round is over
Rest(t) == IF t = Timer THEN "sleep" ELSE "idle"

\* a request handler calls publish_message(body) and waits for the lock
publish_message(c, body) ==
    /\ pc[c] = "idle"
    /\ now < MaxMessages
    /\ pc' = [pc EXCEPT ![c] = "lock"]
    /\ arg' = [arg EXCEPT ![c] = body]
    /\ call' = [call EXCEPT ![c] = NoCall]
    /\ UNCHANGED <<batch_lock, idx, attempt, flushes, ticked, returned>>
    /\ UNCHANGED <<svcVars, queueVars, connVars>>

\* the caller gets the lock and appends; below the threshold it releases the
\* lock and returns, at the threshold it enters _publish_batch holding it
Append_message(c) ==
    /\ pc[c] = "lock"
    /\ batch_lock = "free"
    /\ LET b1 == Append(message_batch, Message(arg[c], now + 1))
       IN  /\ now' = now + 1
           /\ message_batch' = b1
           /\ call' = [call EXCEPT ![c] = [reached |-> Len(b1) >= BatchSize,
                                           snapshot |-> b1, covered |-> <<>>]]
           /\ IF ThresholdReached(b1)
              THEN /\ batch_lock' = c
                   /\ pc' = [pc EXCEPT ![c] = "publish"]
                   /\ idx' = [idx EXCEPT ![c] = 1]
                   /\ attempt' = [attempt EXCEPT ![c] = 1]
                   /\ UNCHANGED returned
              ELSE /\ pc' = [pc EXCEPT ![c] = "idle"]
                   /\ returned' = returned + 1
                   /\ UNCHANGED <<batch_lock, idx, attempt>>
    /\ UNCHANGED <<broker, dropped, arg, flushes, ticked>>
    /\ UNCHANGED <<svcVars, connVars>>

\* asyncio.sleep(RABBITMQ_BATCH_TIMEOUT) of the flush timer is over
timer_wakes ==
    /\ pc[Timer] = "sleep"
    /\ pc' = [pc EXCEPT ![Timer] = "lock"]
    /\ ticked' = TRUE
    /\ UNCHANGED <<batch_lock, arg, idx, attempt, call, flushes, returned>>
    /\ UNCHANGED <<svcVars, queueVars, connVars>>

\* the timer gets the lock: it flushes a non-empty buffer, else sleeps again
timer_round ==
    /\ pc[Timer] = "lock"
    /\ batch_lock = "free"
    /\ IF TimerFlushes(message_batch)
       THEN /\ batch_lock' = Timer
            /\ pc' = [pc EXCEPT ![Timer] = "publish"]
            /\ idx' = [idx EXCEPT ![Timer] = 1]
            /\ attempt' = [attempt EXCEPT ![Timer] = 1]
       ELSE /\ pc' = [pc EXCEPT ![Timer] = "sleep"]
            /\ UNCHANGED <<batch_lock, idx, attempt>>
    /\ UNCHANGED <<arg, call, flushes, ticked, returned>>
    /\ UNCHANGED <<svcVars, queueVars, connVars>>

\* a flush that ends without giving the lock back
NextMessageKeepsLock(t) ==
    IF idx[t] < Len(message_batch)
    THEN /\ idx' = [idx EXCEPT ![t] = @ + 1]
         /\ attempt' = [attempt EXCEPT ![t] = 1]
         /\ UNCHANGED <<message_batch, batch_lock, pc, call, flushes, returned>>
    ELSE /\ message_batch' = <<>>
         /\ pc' = [pc EXCEPT ![t] = Rest(t)]
         /\ flushes' = Append(flushes,
                [by |-> t, msgs |-> message_batch,
                 trigger |-> IF t \in Callers THEN Len(call[t].snapshot) ELSE 0])
         /\ call' = IF t \in Callers
                     THEN [call EXCEPT ![t].covered = message_batch] ELSE call
         /\ returned' = IF t \in Callers THEN returned + 1 ELSE returned
         /\ UNCHANGED <<batch_lock, idx, attempt>>

\* _publish_batch is done with the message at idx[t]: on to the next one, or
\* past the last one clear the buffer, return and release the lock
NextMessage(t) ==
    IF idx[t] < Len(message_batch)
    THEN /\ idx' = [idx EXCEPT ![t] = @ + 1]
         /\ attempt' = [attempt EXCEPT ![t] = 1]
         /\ UNCHANGED <<message_batch, batch_lock, pc, call, flushes, returned>>
    ELSE /\ message_batch' = <<>>
         /\ batch_lock' = "free"
         /\ pc' = [pc EXCEPT ![t] = Rest(t)]
         /\ flushes' = Append(flushes,
                [by |-> t, msgs |-> message_batch,
                 trigger |-> IF t \in Callers THEN Len(call[t].snapshot) ELSE 0])
         /\ call' = IF t \in Callers
                     THEN [call EXCEPT ![t].covered = message_batch] ELSE call
         /\ returned' = IF t \in Callers THEN returned + 1 ELSE returned
         /\ UNCHANGED <<idx, attempt>>

\* an attempt whose message overtakes the messages already at the broker
publish_attempt_overtaking(t, ok) ==
    /\ pc[t] = "publish"
    /\ LET m == message_batch[idx[t]]
           then == IF ok THEN "break" ELSE OnPublishFailure(attempt[t])
       IN  CASE then = "break" ->
                    /\ broker' = <<m>> \o broker
                    /\ NextMessage(t)
                    /\ UNCHANGED dropped
             [] then = "give_up" ->
                    /\ dropped' = dropped \cup {m}
                    /\ NextMessage(t)
                    /\ UNCHANGED broker
             [] then = "sleep" ->
                    /\ pc' = [pc EXCEPT ![t] = "retry_sleep"]
                    /\ UNCHANGED <<message_batch, broker, dropped, batch_lock, idx,
                                   attempt, call, flushes, returned>>
             [] then = "raise" ->
                    /\ pc' = [pc EXCEPT ![t] = "raised"]
                    /\ batch_lock' = "free"
                    /\ UNCHANGED <<message_batch, broker, dropped, idx, attempt,
                                   call, flushes, returned>>
    /\ UNCHANGED <<now, arg, ticked>>
    /\ UNCHANGED <<svcVars, connVars>>

\* one attempt to publish message_batch[idx[t]] through a pooled channel
publish_attempt(t, ok) ==
    /\ pc[t] = "publish"
    /\ LET m == message_batch[idx[t]]
           then == IF ok THEN "break" ELSE OnPublishFailure(attempt[t])
       IN  CASE then = "break" ->
                    /\ broker' = Append(broker, m)
                    /\ NextMessage(t)
                    /\ UNCHANGED dropped
             [] then = "give_up" ->
                    /\ dropped' = dropped \cup {m}
                    /\ NextMessage(t)
                    /\ UNCHANGED broker
             [] then = "sleep" ->
                    /\ pc' = [pc EXCEPT ![t] = "retry_sleep"]
                    /\ UNCHANGED <<message_batch, broker, dropped, batch_lock, idx,
                                   attempt, call, flushes, returned>>
             [] then = "raise" ->
                    /\ pc' = [pc EXCEPT ![t] = "raised"]
                    /\ batch_lock' = "free"
                    /\ UNCHANGED <<message_batch, broker, dropped, idx, attempt,
                                   call, flushes, returned>>
    /\ UNCHANGED <<now, arg, ticked>>
    /\ UNCHANGED <<svcVars, connVars>>

\* asyncio.sleep(retry_delay) between two attempts is over
retry_wakes(t) ==
    /\ pc[t] = "retry_sleep"
    /\ pc' = [pc EXCEPT ![t] = "publish"]
    /\ attempt' = [attempt EXCEPT ![t] = @ + 1]
    /\ UNCHANGED <<batch_lock, arg, idx, call, flushes, ticked, returned>>
    /\ UNCHANGED <<svcVars, queueVars, connVars>>

\* ------------------------------------------------ connection and its tasks
App == 0
Procs == 0..Len(kinds)
Monitors == {i \in 1..Len(kinds) : kinds[i] = "monitor"}
Connectors == {App} \cup Monitors

\* the arguments connect is called with at startup; the monitor passes none
MaxRetriesArgs == {1, 2, connect_max_retries}
InitialDelays == {connect_initial_delay, 10, 40}

\* a process that is not inside connect
Idle(at) ==
    [pc |-> at, max_retries |-> 0, initial_delay |-> 0, retry_count |-> 0,
     delay |-> 0, slept |-> <<>>, results |-> <<>>, outcome |-> "none",
     absorbed |-> FALSE]

\* connect(max_retries, initial_delay) begins: retry_count = 0,
\* delay = initial_delay, and the loop reaches connect_robust
ConnectBegins(max_retries, delay) ==
    [pc |-> "connect_robust", max_retries |-> max_retries, initial_delay |-> delay,
     retry_count |-> 0, delay |-> delay, slept |-> <<>>, results |-> <<>>,
     outcome |-> "running", absorbed |-> FALSE]

\* delay = min(delay * 2, 30)
NextDelay(delay) == IF delay * 2 < max_delay THEN delay * 2 ELSE max_delay

\* where a process goes when its connect returns or raises: the application
\* is up or has failed to start; the monitor sleeps either way, its
\* `except Exception` catching what connect raises
AfterConnectUncaught(p, outcome) ==
    IF outcome = "returned" THEN (IF p = App THEN "up" ELSE "sleep")
    ELSE IF p = App THEN "failed" ELSE "done"
AfterConnect(p, outcome) ==
    IF p # App THEN "sleep" ELSE IF outcome = "returned" THEN "up" ELSE "failed"

\* if retry_count == max_retries: raise
ExhaustedLate(retry_count, max_retries) == retry_count > max_retries
Exhausted(retry_count, max_retries) == retry_count = max_retries

\* the except clause of one attempt of process p's connect: count the
\* failure, then raise, or sleep for `delay`
ConnectFails(p) ==
    LET c == proc[p]
        n == c.retry_count + 1
    IN  proc' = [proc EXCEPT ![p] =
            IF Exhausted(n, c.max_retries)
            THEN [c EXCEPT !.pc = AfterConnect(p, "raised"), !.retry_count = n,
                           !.results = Append(@, "fail"), !.outcome = "raised",
                           !.absorbed = (p # App)]
            ELSE [c EXCEPT !.pc = "backoff", !.retry_count = n,
                           !.results = Append(@, "fail"),
                           !.slept = Append(@, c.delay)]]

\* RabbitMQ.connect(max_retries, initial_delay) called at startup
startup(max_retries, delay) ==
    /\ proc[App].pc = "start"
    /\ proc' = [proc EXCEPT ![App] = ConnectBegins(max_retries, delay)]
    /\ UNCHANGED <<connection, broker_up, outages, kinds, batch_task, connection_task>>
    /\ UNCHANGED <<svcVars, queueVars, pubVars>>

\* cls.connection = await connect_robust(...)
connect_robust(p) ==
    /\ proc[p].pc = "connect_robust"
    /\ IF broker_up
       THEN /\ connection' = "open"
            /\ proc' = [proc EXCEPT ![p].pc = "setup"]
       ELSE /\ ConnectFails(p)
            /\ UNCHANGED connection
    /\ UNCHANGED <<broker_up, outages, kinds, batch_task, connection_task>>
    /\ UNCHANGED <<svcVars, queueVars, pubVars>>

\* the rest of the try block: the pool, the queue declared over a channel of
\* cls.connection, then the two create_task calls and the return
setup(p) ==
    /\ proc[p].pc = "setup"
    /\ IF connection = "open"
       THEN LET n == Len(kinds)
                back == [proc[p] EXCEPT !.pc = AfterConnect(p, "returned"),
                                        !.results = Append(@, "ok"),
                                        !.outcome = "returned"]
            IN  /\ kinds' = kinds \o <<"batch", "monitor">>
                /\ batch_task' = n + 1
                /\ connection_task' = n + 2
                /\ proc' = [q \in 0..(n + 2) |->
                               IF q = p THEN back
                               ELSE IF q = n + 1 THEN Idle("running")
                               ELSE IF q = n + 2 THEN Idle("sleep")
                               ELSE proc[q]]
       ELSE /\ ConnectFails(p)
            /\ UNCHANGED <<kinds, batch_task, connection_task>>
    /\ UNCHANGED <<connection, broker_up, outages>>
    /\ UNCHANGED <<svcVars, queueVars, pubVars>>

\* asyncio.sleep(delay) is over: delay = min(delay * 2, 30), and the while
\* condition retry_count < max_retries is tested
backoff_wakes(p) ==
    /\ proc[p].pc = "backoff"
    /\ proc' = [proc EXCEPT ![p] =
            IF @.retry_count < @.max_retries
            THEN [@ EXCEPT !.pc = "connect_robust", !.delay = NextDelay(@)]
            ELSE [@ EXCEPT !.pc = AfterConnect(p, "returned"),
                           !.delay = NextDelay(@), !.outcome = "returned"]]
    /\ UNCHANGED <<connection, broker_up, outages, kinds, batch_task, connection_task>>
    /\ UNCHANGED <<svcVars, queueVars, pubVars>>

\* _monitor_connection wakes from asyncio.sleep(5) and finds
\* `not cls.connection or cls.connection.is_closed`: it calls connect()
monitor_checks(i) ==
    /\ proc[i].pc = "sleep"
    /\ connection # "open"
    /\ proc' = [proc EXCEPT ![i] =
            [ConnectBegins(connect_max_retries, connect_initial_delay)
                EXCEPT !.absorbed = proc[i].absorbed]]
    /\ UNCHANGED <<connection, broker_up, outages, kinds, batch_task, connection_task>>
    /\ UNCHANGED <<svcVars, queueVars, pubVars>>

\* task.cancel() and `await task` of close: the task, suspended at an await,
\* gets CancelledError, which none of its except clauses catches, and ends
Cancelled(pr, task) ==
    IF task = None THEN pr ELSE [pr EXCEPT ![task] = [@ EXCEPT !.pc = "done"]]

\* close, up to the end of `if cls._batch_task:`
close_batch_task ==
    /\ proc[App].pc = "up"
    /\ proc' = [Cancelled(proc, batch_task) EXCEPT ![App].pc = "close_connection_task"]
    /\ UNCHANGED <<connection, broker_up, outages, kinds, batch_task, connection_task>>
    /\ UNCHANGED <<svcVars, queueVars, pubVars>>

\* close, up to the end of `if cls._connection_task:`
close_connection_task ==
    /\ proc[App].pc = "close_connection_task"
    /\ proc' = [Cancelled(proc, connection_task) EXCEPT ![App].pc = "close_connection"]
    /\ UNCHANGED <<connection, broker_up, outages, kinds, batch_task, connection_task>>
    /\ UNCHANGED <<svcVars, queueVars, pubVars>>

\* if cls.connection: await cls.connection.close()
close_connection ==
    /\ proc[App].pc = "close_connection"
    /\ connection' = IF connection = "none" THEN "none" ELSE "closed"
    /\ proc' = [proc EXCEPT ![App].pc = "closed"]
    /\ UNCHANGED <<broker_up, outages, kinds, batch_task, connection_task>>
    /\ UNCHANGED <<svcVars, queueVars, pubVars>>

\* the broker goes down: an open connection is lost
broker_down ==
    /\ broker_up
    /\ outages < MaxOutages
    /\ broker_up' = FALSE
    /\ outages' = outages + 1
    /\ connection' = IF connection = "open" THEN "closed" ELSE connection
    /\ UNCHANGED <<kinds, proc, batch_task, connection_task>>
    /\ UNCHANGED <<svcVars, queueVars, pubVars>>

broker_recovers ==
    /\ ~broker_up
    /\ broker_up' = TRUE
    /\ UNCHANGED <<connection, outages, kinds, proc, batch_task, connection_task>>
    /\ UNCHANGED <<svcVars, queueVars, pubVars>>

\* ------------------------------------------------------------- health_check
\* _check_mongodb: ping and find_one inside try; the except clause reports
\* unhealthy
CheckMongodb(mongo_ok) == IF mongo_ok THEN "healthy" ELSE "unhealthy"

\* RabbitMQ.check_connection: False without an open connection, and False
\* from its except clause when the channel or declare_queue raises
CheckConnection(conn, declare_ok) == conn = "open" /\ declare_ok

\* _check_rabbitmq
CheckRabbitmq(conn, declare_ok) ==
    IF CheckConnection(conn, declare_ok) THEN "healthy" ELSE "unhealthy"

\* is_healthy, and the status health_check reports
HealthyIfEither(mongo_status, rabbitmq_status) ==
    IF mongo_status = "healthy" \/ rabbitmq_status = "healthy"
    THEN "healthy" ELSE "unhealthy"
IsHealthy(mongo_status, rabbitmq_status) ==
    IF mongo_status = "healthy" /\ rabbitmq_status = "healthy"
    THEN "healthy" ELSE "unhealthy"

\* mongo_ok: ping and find_one succeed; declare_ok: the probe's channel and
\* declare_queue succeed.  Every path of health_check and of its two
\* helpers ends in a return.
health_check(mongo_ok, declare_ok) ==
    /\ LET mongo_status == CheckMongodb(mongo_ok)
           rabbitmq_status == CheckRabbitmq(connection, declare_ok)
       IN  last' = [op |-> "health_check", ret |-> "returned",
                    status |-> IsHealthy(mongo_status, rabbitmq_status),
                    mongodb |-> mongo_status, rabbitmq |-> rabbitmq_status,
                    mongo_ok |-> mongo_ok,
                    rabbitmq_ok |-> connection = "open" /\ declare_ok]
    /\ result' = <<>>
    /\ UNCHANGED <<store, sends, delivered, sent_writes, failed_writes>>
    /\ UNCHANGED <<queueVars, pubVars, connVars>>

Init ==
    /\ store = <<>>
    /\ now = 0
    /\ message_batch = <<>>
    /\ broker = <<>>
    /\ dropped = {}
    /\ sends = <<>>
    /\ delivered = <<>>
    /\ sent_writes = <<>>
    /\ failed_writes = <<>>
    /\ last = Call("none", 0, 0, "none", "none", "none", 0)
    /\ result = <<>>
    /\ batch_lock = "free"
    /\ pc = [t \in Tasks |-> Rest(t)]
    /\ arg = [c \in Callers |-> [id |-> 1, retry_count |-> 0]]
    /\ idx = [t \in Tasks |-> 1]
    /\ attempt = [t \in Tasks |-> 1]
    /\ call = [c \in Callers |-> NoCall]
    /\ flushes = <<>>
    /\ ticked = FALSE
    /\ returned = 0
    /\ connection = "none"
    /\ broker_up = TRUE
    /\ outages = 0
    /\ kinds = <<>>
    /\ proc = [p \in {App} |-> Idle("start")]
    /\ batch_task = None
    /\ connection_task = None

Next ==
    \/ \E user \in Users, dbok \in BOOLEAN, pubok \in BOOLEAN :
            create_notification(user, dbok, pubok)
    \/ \E transport \in Transports, db1 \in BOOLEAN, db2 \in BOOLEAN :
            process_notification(transport, db1, db2)
    \/ \E id \in Ids, s \in Statuses, dbok \in BOOLEAN : update_status(id, s, dbok)
    \/ process_batch

Spec == Init /\ [][Next]_vars

\* the retry counts a dictionary handed to process_notification may carry
RetryCounts == 0..(service_max_retries + 1)

NextDirect ==
    \/ /\ now < MaxDirectTime
       /\ \E user \in Users, dbok \in BOOLEAN, pubok \in BOOLEAN :
            create_notification(user, dbok, pubok)
    \/ /\ now < MaxDirectTime
       /\ \E id \in Ids, rc \in RetryCounts, transport \in Transports,
             db1 \in BOOLEAN, db2 \in BOOLEAN :
               process_notification_direct(id, rc, transport, db1, db2)
    \/ /\ now < MaxDirectTime
       /\ \E id \in Ids, s \in Statuses, dbok \in BOOLEAN : update_status(id, s, dbok)
    \/ process_batch

SpecDirect == Init /\ [][NextDirect]_vars

\* the handlers of the REST interface that read and write the store; the
\* routers keep limit within 1..100 and skip at 0 or more
Limits == 1..MaxLimit
Skips == 0..MaxSkip

NextQuery ==
    \/ /\ now < MaxQueryTime
       /\ \E user \in Users, dbok \in BOOLEAN, pubok \in BOOLEAN :
            create_notification(user, dbok, pubok)
    \/ /\ now < MaxQueryTime
       /\ \E id \in Ids, s \in Statuses, dbok \in BOOLEAN : update_status(id, s, dbok)
    \/ \E user \in Users, limit \in Limits, skip \in Skips,
          s \in Statuses \cup {NoFilter}, dbok \in BOOLEAN :
            get_user_notifications(user, limit, skip, s, dbok)

SpecQuery == Init /\ [][NextQuery]_vars

\* the application's life: startup, the tasks connect creates, the broker
\* going down and coming back, shutdown
NextConn ==
    \/ \E max_retries \in MaxRetriesArgs, delay \in InitialDelays :
            startup(max_retries, delay)
    \/ \E p \in Connectors : connect_robust(p)
    \/ \E p \in Connectors : setup(p)
    \/ \E p \in Connectors : backoff_wakes(p)
    \/ \E i \in Monitors : monitor_checks(i)
    \/ close_batch_task
    \/ close_connection_task
    \/ close_connection
    \/ broker_down
    \/ broker_recovers

SpecConn == Init /\ [][NextConn]_vars

\* the same, with the health endpoint being called
NextHealth ==
    \/ NextConn
    \/ \E mongo_ok \in BOOLEAN, declare_ok \in BOOLEAN :
            health_check(mongo_ok, declare_ok)

SpecHealth == Init /\ [][NextHealth]_vars

\* The event loop resumes every task whose await is over.
SpecConnFair ==
    /\ SpecConn
    /\ WF_vars(\E i \in Monitors : monitor_checks(i))
    /\ WF_vars(\E p \in Connectors : connect_robust(p))
    /\ WF_vars(\E p \in Connectors : setup(p))
    /\ WF_vars(\E p \in Connectors : backoff_wakes(p))

\* `async with cls.channel_pool.acquire() as channel` and the publish over
\* it: the pool makes its channels with get_channel, from cls.connection,
\* so the attempt gets through when the connection is open and raises when
\* it is closed
flush_attempt(t) == publish_attempt(t, connection = "open")

\* task t is inside _publish_batch
Flushing(t) == pc[t] \in {"publish", "retry_sleep"}

\* the publisher of a started application, with the broker going down while
\* a flush is in progress and the monitor reconnecting
NextOutage ==
    \/ startup(connect_max_retries, connect_initial_delay)
    \/ \E p \in Connectors : connect_robust(p)
    \/ \E p \in Connectors : setup(p)
    \/ \E p \in Connectors : backoff_wakes(p)
    \/ \E i \in Monitors : monitor_checks(i)
    \/ /\ \E t \in Tasks : Flushing(t)
       /\ broker_down
    \/ broker_recovers
    \/ /\ proc[App].pc = "up"
       /\ now < MaxOutageMessages
       /\ \E c \in Callers, body \in Bodies : publish_message(c, body)
    \/ \E c \in Callers : Append_message(c)
    \/ /\ proc[App].pc = "up"
       /\ timer_wakes
    \/ timer_round
    \/ \E t \in Tasks : flush_attempt(t)
    \/ \E t \in Tasks : retry_wakes(t)

SpecOutage == Init /\ [][NextOutage]_vars

\* cls._batch_task.cancel() and `await cls._batch_task` of close, seen from
\* the publisher: the flush-timer task, suspended at one of its awaits (the
\* sleep, the lock, a publish attempt, the sleep between two attempts),
\* gets CancelledError, which `except Exception` does not catch; it leaves
\* _publish_batch before clear(), `async with` releases the lock, and the
\* task ends
cancel_batch_task ==
    /\ proc[App].pc = "up"
    /\ pc[Timer] # "cancelled"
    /\ proc' = [Cancelled(proc, batch_task) EXCEPT ![App].pc = "close_connection_task"]
    /\ pc' = [pc EXCEPT ![Timer] = "cancelled"]
    /\ batch_lock' = IF batch_lock = Timer THEN "free" ELSE batch_lock
    /\ UNCHANGED <<arg, idx, attempt, call, flushes, ticked, returned>>
    /\ UNCHANGED <<connection, broker_up, outages, kinds, batch_task, connection_task>>
    /\ UNCHANGED <<svcVars, queueVars>>

\* the publisher of a started application that is shut down: close cancels
\* the flush timer, then the monitor, then closes the connection, while
\* request handlers still call publish_message
NextClose ==
    \/ startup(connect_max_retries, connect_initial_delay)
    \/ connect_robust(App)
    \/ setup(App)
    \/ /\ proc[App].pc \notin {"start", "connect_robust", "setup"}
       /\ now < MaxCloseMessages
       /\ \E c \in Callers, body \in Bodies : publish_message(c, body)
    \/ \E c \in Callers : Append_message(c)
    \/ /\ proc[App].pc = "up"
       /\ timer_wakes
    \/ timer_round
    \/ \E t \in Tasks : flush_attempt(t)
    \/ \E t \in Tasks : retry_wakes(t)
    \/ cancel_batch_task
    \/ close_connection_task
    \/ close_connection

SpecClose == Init /\ [][NextClose]_vars

NextPub ==
    \/ \E c \in Callers, body \in Bodies : publish_message(c, body)
    \/ \E c \in Callers : Append_message(c)
    \/ timer_wakes
    \/ timer_round
    \/ \E t \in Tasks, ok \in BOOLEAN : publish_attempt(t, ok)
    \/ \E t \in Tasks : retry_wakes(t)

SpecPub == Init /\ [][NextPub]_vars

\* The event loop runs every task that is ready, and asyncio.Lock hands the
\* lock to its waiters in turn.
SpecPubFair ==
    /\ SpecPub
    /\ WF_vars(timer_wakes)
    /\ SF_vars(timer_round)
    /\ \A c \in Callers : SF_vars(Append_message(c))
    /\ \A t \in Tasks : WF_vars(\E ok \in BOOLEAN : publish_attempt(t, ok))
    /\ \A t \in Tasks : WF_vars(retry_wakes(t))

\* =================================================================== claims
\* the step is a call of process_notification
ProcessStep == now' # now /\ last'.op = "process"

\* sender invocations made for id before the last call of process_notification
SendsBeforeLast(id) ==
    sends[id] - (IF last.op = "process" /\ last.id = id /\ last.transport # "none"
                 THEN 1 ELSE 0)

\* C1: every stored notification has 0 <= retry_count <= max_retries, after
\* any sequence of create, process (success, failure, exception) and
\* update_status calls.
C1_RetryCountBounded ==
    \A id \in DOMAIN store :
        /\ 0 <= store[id].retry_count
        /\ store[id].retry_count <= store[id].max_retries

\* C1 witness: a retry step has stored a count equal to max_retries.
C1_Witness ==
    \E id \in DOMAIN store :
        /\ store[id].retry_count = store[id].max_retries
        /\ last.op = "process" /\ last.id = id /\ last.wrote = "retry"

\* C2: when every delivery attempt of a notification has failed and
\* max_retries failed attempts have been made, the processing of the message
\* requeued by the last of them leaves the notification failed, failed_at set.
C2_FailedAfterMaxRetries ==
    \A id \in DOMAIN store :
        ( /\ last.op = "process" /\ last.id = id
          /\ last.ret # "raised"
          /\ delivered[id] = 0
          /\ SendsBeforeLast(id) >= service_max_retries )
        => (store[id].status = "failed" /\ IsSet(store[id].failed_at))

\* C3: the sender is invoked at most max_retries times for a notification,
\* however often its requeued messages are consumed and processed.
C3_SendsBounded ==
    \A id \in DOMAIN store : sends[id] <= store[id].max_retries

\* C4: sent and failed are terminal: no call of process_notification changes
\* a stored status that is sent or failed.
C4_TerminalStatus ==
    [][ProcessStep =>
          \A id \in DOMAIN store :
              store[id].status \in {"sent", "failed"}
                  => store'[id].status = store[id].status]_vars

\* C5: status = sent implies sent_at set and failed_at unset; status = failed
\* implies failed_at set; sent_at and failed_at are never both set.
C5_TimestampsMatchStatus ==
    \A id \in DOMAIN store :
        /\ store[id].status = "sent"
              => (IsSet(store[id].sent_at) /\ ~IsSet(store[id].failed_at))
        /\ store[id].status = "failed" => IsSet(store[id].failed_at)
        /\ ~(IsSet(store[id].sent_at) /\ IsSet(store[id].failed_at))

\* C6: for a notification whose delivery succeeded, process_notification
\* writes sent_at at most once and never writes failed_at.
C6_SentOnce ==
    \A id \in DOMAIN store :
        delivered[id] >= 1 => (sent_writes[id] <= 1 /\ failed_writes[id] = 0)

\* ------------------------------------------------------------ publisher claims
Range(q) == {q[i] : i \in 1..Len(q)}
InBatch(k) == \E m \in Range(message_batch) : m.timestamp = k
AtBroker(k) == \E m \in Range(broker) : m.timestamp = k
GivenUpOn(k) == \E m \in dropped : m.timestamp = k
InCall(c) == pc[c] \in {"lock", "publish", "retry_sleep"}

\* C7: a publish_message call that makes the buffer length reach the batch
\* size holds the lock until it has flushed the whole buffer: when it returns
\* its own flush has covered every message the buffer held, with or without
\* the timer having woken up.
C7_SizeTriggersFlush ==
    \A c \in Callers :
        /\ (call[c].reached /\ InCall(c)) => batch_lock = c
        /\ (call[c].reached /\ pc[c] \in {"idle", "raised"})
              => /\ call[c].covered = call[c].snapshot
                 /\ \E i \in 1..Len(flushes) :
                        flushes[i].by = c /\ flushes[i].msgs = call[c].snapshot

\* C7 witness: a call that reached the batch size has returned after its
\* flush, and the timer never woke up.
C7_Witness ==
    \E c \in Callers :
        /\ call[c].reached /\ pc[c] = "idle" /\ ~ticked
        /\ Len(call[c].covered) = BatchSize

\* C8: with the flush timer running, every message in the buffer eventually
\* leaves it, published to the broker or given up on.
C8_EveryMessageLeaves ==
    \A k \in 1..MaxMessages :
        InBatch(k) ~> (~InBatch(k) /\ (AtBroker(k) \/ GivenUpOn(k)))

\* C8 witness: the timer has flushed a buffer that held a single message.
C8_Witness ==
    \E i \in 1..Len(flushes) : flushes[i].by = Timer /\ Len(flushes[i].msgs) = 1

\* C9: from an empty buffer and with no timer wake-up, no flush happens
\* before BatchSize calls have returned, and once exactly BatchSize calls
\* have returned there has been exactly one flush, made by the call that
\* appended the BatchSize-th message, covering all BatchSize messages in
\* order, and the buffer is empty.
C9_OneFlushPerFullBatch ==
    ~ticked =>
        /\ returned < BatchSize => flushes = <<>>
        /\ returned = BatchSize =>
              /\ Len(flushes) = 1
              /\ flushes[1].by \in Callers
              /\ flushes[1].trigger = BatchSize
              /\ [i \in 1..Len(flushes[1].msgs) |-> flushes[1].msgs[i].timestamp]
                     = [i \in 1..BatchSize |-> i]
              /\ message_batch = <<>>

\* C9 witness: BatchSize calls have returned without any timer wake-up.
C9_Witness == ~ticked /\ returned = BatchSize /\ Len(flushes) = 1

\* C10: a message whose batch_max_retries attempts all failed is given up
\* on: it never reaches the broker, it is in the buffer only until the flush
\* that gave up on it clears the buffer, the buffer is empty when the lock is
\* released by a flush, and no exception leaves publish_message or the
\* timer's loop.
C10_DroppedNotRequeued ==
    /\ \A t \in Tasks : pc[t] # "raised"
    /\ \A m \in dropped :
          /\ m \notin Range(broker)
          /\ m \in Range(message_batch)
                => \E t \in Tasks : batch_lock = t /\ pc[t] \in {"publish", "retry_sleep"}
                                     /\ message_batch[idx[t]].timestamp > m.timestamp
    /\ \A i \in 1..Len(flushes) :
          \A m \in Range(flushes[i].msgs) : m \notin Range(message_batch)

\* C10 witness: a flush has given up on a message and finished; the buffer
\* is empty and the message is in neither the buffer nor the broker's queue.
C10_Witness ==
    /\ batch_lock = "free" /\ message_batch = <<>>
    /\ \E i \in 1..Len(flushes) : \E m \in Range(flushes[i].msgs) :
            m \in dropped /\ m \notin Range(broker)

\* the messages made for notification id that are in the buffer, at the
\* broker, or were given up on
MessagesIn(b, q, d, id) == {m \in Range(b) \cup Range(q) \cup d : m.body.id = id}
MessagesFor(id) == MessagesIn(message_batch, broker, dropped, id)

\* the step is a call of create_notification that returns
CreateReturns == now' # now /\ last'.op = "create" /\ last'.ret = "ok"

\* C11: when create_notification returns, the returned record has status
\* pending, retry_count 0, an id and created_at; the store holds exactly one
\* new record, with that id and the same field values; and exactly one
\* message for that notification has been handed to the publisher.
C11_CreateReturnsRecord ==
    [][CreateReturns =>
        /\ Len(result') = 1
        /\ LET r == result'[1]
           IN  /\ r.status = "pending"
               /\ r.retry_count = 0
               /\ r.id # None
               /\ IsSet(r.created_at)
               /\ r.id \notin DOMAIN store
               /\ DOMAIN store' = DOMAIN store \cup {r.id}
               /\ \A id \in DOMAIN store : store'[id] = store[id]
               /\ Notification(store'[r.id]) = r
               /\ MessagesFor(r.id) = {}
               /\ Cardinality(MessagesIn(message_batch', broker', dropped', r.id)) = 1]_vars

\* the second notification was created and returned, and its message is
\* in the buffer, at the broker or given up on
C11_Witness ==
    /\ last.op = "create" /\ last.ret = "ok"
    /\ Len(result) = 1 /\ result[1].id = 2
    /\ 2 \in DOMAIN store /\ 1 \in DOMAIN store
    /\ Cardinality(MessagesFor(2)) = 1

\* the step is a call of create_notification
CreateStep == now' # now /\ last'.op = "create"

\* C12: create_notification fails with an error whenever insert_one raises
\* (the store is left as it was) or publish_message raises (no message for
\* the notification exists afterwards); when insert_one raises, nothing is
\* enqueued.
C12_CreateFails ==
    [][CreateStep =>
        /\ (store' = store
              \/ MessagesIn(message_batch', broker', dropped', last'.id) = {})
            => (last'.ret = "500" /\ result' = <<>>)
        /\ store' = store
            => (message_batch' = message_batch /\ broker' = broker
                /\ dropped' = dropped)]_vars

\* a call of create_notification inserted its record, publish_message
\* raised, and the call failed
C12_Witness ==
    /\ last.op = "create" /\ last.ret = "500"
    /\ last.id \in DOMAIN store
    /\ MessagesFor(last.id) = {}

\* the stored notifications the last get_user_notifications call asked for
Asked ==
    {id \in DOMAIN store :
        /\ store[id].user_id = last.user_id
        /\ last.status # NoFilter => store[id].status = last.status}

\* the number of notifications asked for that are newer than record r
NewerThan(r) == Cardinality({id \in Asked : store[id].created_at > r.created_at})

\* C13: get_user_notifications returns stored notifications of the user
\* asked for (and of the status asked for) only, each as it is stored,
\* newest first: the i-th record returned is the one with skip + i - 1
\* newer ones, and min(limit, matching - skip) records are returned.
C13_ListForUser ==
    (last.op = "list" /\ last.ret = "ok") =>
        LET left == IF Cardinality(Asked) > last.skip
                    THEN Cardinality(Asked) - last.skip ELSE 0
        IN  /\ Len(result) = IF last.limit < left THEN last.limit ELSE left
            /\ \A i \in 1..Len(result) :
                    /\ result[i].id \in Asked
                    /\ result[i].user_id = last.user_id
                    /\ result[i] = Notification(store[result[i].id])
                    /\ NewerThan(result[i]) = last.skip + i - 1
            /\ \A i, j \in 1..Len(result) :
                    i < j => result[i].created_at >= result[j].created_at

\* a call with skip 1 and limit 1 on a user with two notifications returned
\* the older one
C13_Witness ==
    /\ last.op = "list" /\ last.ret = "ok"
    /\ last.skip = 1 /\ last.limit = 1
    /\ Cardinality(Asked) = 2
    /\ Len(result) = 1
    /\ \E id \in Asked : store[id].created_at > result[1].created_at

\* the step is a call of update_status
UpdateStep == now' # now /\ last'.op = "update_status"

\* C14: update_status on an id that is not in the store fails with the
\* not-found error (HTTP 404) and leaves the store as it was.
C14_UpdateStatusNotFound ==
    [][(UpdateStep /\ last'.id \notin DOMAIN store) =>
        (last'.ret = "404" /\ store' = store)]_vars

\* C15: health_check returns a result for every combination of probe
\* outcomes, and the result is healthy exactly when the store probe and
\* the broker probe both succeeded.
C15_HealthyIffBoth ==
    last.op = "health_check" =>
        /\ last.ret = "returned"
        /\ last.status \in {"healthy", "unhealthy"}
        /\ last.status = "healthy" <=>
                (last.mongodb = "healthy" /\ last.rabbitmq = "healthy")
        /\ last.status = "healthy" <=> (last.mongo_ok /\ last.rabbitmq_ok)

\* a health check found the store working and the broker probe failing,
\* and reported unhealthy
C15_Witness ==
    /\ last.op = "health_check" /\ last.ret = "returned"
    /\ last.mongo_ok /\ ~last.rabbitmq_ok
    /\ last.status = "unhealthy"

\* the delay claimed for the sleep after the k-th failed attempt of a
\* connect invocation that was given initial_delay
ClaimedDelay(initial_delay, k) ==
    IF initial_delay * Pow2(k - 1) < max_delay
    THEN initial_delay * Pow2(k - 1) ELSE max_delay

AllFailed(results) == \A k \in 1..Len(results) : results[k] = "fail"

\* C17: a connect invocation makes at most max_retries attempts; it returns
\* as soon as one attempt succeeds, having slept once after each failed
\* one; it raises exactly when max_retries attempts have failed, without
\* sleeping after the last of them.
C17_ConnectAttempts ==
    \A p \in Procs :
        LET c == proc[p]
            n == Len(c.results)
        IN  c.outcome # "none" =>
            /\ n <= c.max_retries
            /\ c.outcome = "returned" =>
                    /\ n >= 1 /\ c.results[n] = "ok"
                    /\ AllFailed(SubSeq(c.results, 1, n - 1))
                    /\ Len(c.slept) = n - 1
            /\ c.outcome = "raised" <=> (n = c.max_retries /\ AllFailed(c.results))
            /\ c.outcome = "raised" => Len(c.slept) = c.max_retries - 1
            /\ c.outcome = "running" => (AllFailed(c.results) /\ Len(c.slept) = n)

\* the monitor's connect raised after five failed attempts and four sleeps,
\* and a connect before it returned on its first attempt
C17_Witness ==
    /\ \E p \in Monitors :
            /\ proc[p].outcome = "raised"
            /\ Len(proc[p].results) = connect_max_retries
            /\ Len(proc[p].slept) = connect_max_retries - 1
    /\ proc[App].outcome = "returned"

\* a connection monitor loop is running
MonitorRunning == \E i \in Monitors : proc[i].pc # "done"

\* the step is one of close's two cancellations
CloseCancels ==
    /\ proc[App].pc \in {"up", "close_connection_task"}
    /\ proc'[App].pc # proc[App].pc

\* C18: a monitor loop ends only by being cancelled, also when its connect
\* has raised; and if the broker is reachable from some time on, then
\* whenever the connection is absent or closed while a monitor runs, the
\* connection is open again later (or the monitors have been cancelled).
C18_MonitorReconnects ==
    /\ [][\A i \in Monitors :
            (proc[i].pc # "done" /\ proc'[i].pc = "done") => CloseCancels]_vars
    /\ (<>[]broker_up) =>
            ((connection # "open" /\ MonitorRunning)
                ~> (connection = "open" \/ ~MonitorRunning))

\* a monitor whose connect had raised, the broker being down, called
\* connect again and got through after a failed attempt
C18_Witness ==
    /\ connection = "open"
    /\ \E i \in Monitors :
            /\ proc[i].absorbed
            /\ proc[i].outcome = "returned"
            /\ Len(proc[i].results) >= 2

\* the background loops that have not finished
Running == {i \in 1..Len(kinds) : proc[i].pc # "done"}

\* C19: when close comes to closing the connection, and ever after, every
\* flush-timer loop and every monitor loop that connect has started has
\* been cancelled and has finished.
C19_CloseStopsEveryLoop ==
    proc[App].pc \in {"close_connection", "closed"} => Running = {}

\* C20: the buffer lock is free whenever a task is at a publish attempt
\* (channel acquisition and broker publish) or in the sleep between two
\* attempts, so that a caller of publish_message can append meanwhile.
C20_LockFreeDuringPublish ==
    \A t \in Tasks : pc[t] \in {"publish", "retry_sleep"} => batch_lock = "free"

\* the last call was process_notification on a stored notification, with a
\* message carrying retry_count < max_retries
ProcessedBelowMax ==
    /\ last.op = "process"
    /\ last.rc < service_max_retries
    /\ last.id \in DOMAIN store

\* C21: a call of process_notification with retry_count < max_retries in
\* which the sender or a store update raises does not mark the notification
\* failed; whatever it writes to the store is the counted attempt of an
\* explicit send failure: retry_count is the message's plus one, status
\* pending, and the notification is requeued.
C21_ExceptionCountsAsAttempt ==
    (ProcessedBelowMax /\ last.wrote \notin {"sent", "none"}) =>
        /\ last.wrote = "retry"
        /\ last.published = 1
        /\ store[last.id].status = "pending"
        /\ store[last.id].retry_count = last.rc + 1

\* C22: process_notification returns True or False for every outcome of
\* the sender and of the store updates, the update of the except clause
\* included; it never raises.
C22_ProcessNeverRaises ==
    last.op = "process" => last.ret \in {"True", "False"}

\* the deliveries of notification id that have failed so far
FailedDeliveries(id) == sends[id] - delivered[id]

\* C23: the retry delay computed on the k-th failed delivery of a
\* notification is retry_delay * 2^k.
C23_DelayDoubles ==
    (/\ last.op = "process"
     /\ last.transport \in {"refused", "error"}
     /\ last.id \in DOMAIN sends) =>
        RetryDelay([id |-> last.id, retry_count |-> last.rc])
            = retry_delay * Pow2(FailedDeliveries(last.id))

\* the step is a call of process_notification on a stored notification
\* with a message carrying retry_count >= max_retries
ProcessesAtMax ==
    /\ ProcessStep
    /\ last'.rc >= service_max_retries
    /\ last'.id \in DOMAIN store

\* the step invokes no sender and hands nothing to the publisher
NoSendNoRequeue ==
    /\ sends' = sends /\ delivered' = delivered
    /\ message_batch' = message_batch /\ broker' = broker /\ dropped' = dropped

\* the step marks the notification of the call failed and returns False
MarksFailed ==
    /\ store'[last'.id].status = "failed"
    /\ store'[last'.id].failed_at = now'
    /\ last'.ret = "False"

ProcessesDelivered ==
    /\ ProcessStep
    /\ last'.rc < service_max_retries
    /\ last'.id \in DOMAIN store
    /\ last'.transport = "delivered"

\* the step returns True after one store update, which sets status sent and
\* sent_at and nothing else, and hands nothing to the publisher
SentUpdateOnly ==
    /\ last'.ret = "True"
    /\ last'.wrote = "sent"
    /\ sent_writes'[last'.id] = sent_writes[last'.id] + 1
    /\ failed_writes' = failed_writes
    /\ store' = [store EXCEPT ![last'.id] =
                     [@ EXCEPT !.status = "sent", !.sent_at = now']]
    /\ store'[last'.id].retry_count = store[last'.id].retry_count
    /\ last'.published = 0
    /\ message_batch' = message_batch /\ broker' = broker /\ dropped' = dropped

PublishedAt(b, q, d, t) == {m \in Range(b) \cup Range(q) \cup d : m.timestamp = t}

\* the step is a call of process_notification on a stored notification,
\* with a message carrying retry_count < max_retries, whose delivery fails
\* and whose store update gets through
ProcessesRefused ==
    /\ ProcessStep
    /\ last'.rc < service_max_retries
    /\ last'.id \in DOMAIN store
    /\ last'.transport \in {"refused", "error"}
    /\ last'.wrote = "retry"

\* C26: called with retry_count < max_retries and a delivery that fails,
\* process_notification returns False, performs exactly one store update,
\* which persists retry_count + 1 with status pending, and publishes
\* exactly one message for the notification, carrying the incremented
\* retry_count.
C26_FailureRequeuesIncremented ==
    [][ProcessesRefused =>
        /\ last'.ret = "False"
        /\ store' = [store EXCEPT ![last'.id] =
                         [@ EXCEPT !.retry_count = last'.rc + 1,
                                   !.last_retry = now',
                                   !.status = "pending"]]
        /\ sent_writes' = sent_writes /\ failed_writes' = failed_writes
        /\ \E m \in PublishedAt(message_batch', broker', dropped', now') :
              /\ PublishedAt(message_batch', broker', dropped', now') = {m}
              /\ m.body.id = last'.id
              /\ m.body.retry_count = last'.rc + 1]_vars

\* task t makes a publish attempt in this step
AttemptStep(t) == pc[t] = "publish" /\ (pc'[t] # pc[t] \/ idx'[t] # idx[t])

\* the flush of task t is done with the message at idx[t]: it goes on to
\* the first attempt for the next message of the batch, or past the last
\* message it ends and clears the buffer
FlushMovesOn(t) ==
    IF idx[t] < Len(message_batch)
    THEN /\ pc'[t] = "publish"
         /\ idx'[t] = idx[t] + 1
         /\ attempt'[t] = 1
         /\ message_batch' = message_batch
    ELSE /\ pc'[t] \notin {"publish", "retry_sleep"}
         /\ message_batch' = <<>>

\* how often message m is in queue q
TimesIn(q, m) == Cardinality({j \in 1..Len(q) : q[j] = m})

\* C27: during a flush every message of the batch gets at least 1 and at
\* most batch_max_retries publish attempts: the flush starts at the first
\* message, leaves a message only by an attempt for it, and numbers its
\* attempts 1..batch_max_retries; after a successful attempt it is done
\* with the message, and after a message's last failed attempt it goes on
\* with the messages after it.  Every message of a finished flush is at the
\* broker once or was given up on, never both.
C27_AttemptsPerMessage ==
    [][/\ \A t \in Tasks :
            /\ AttemptStep(t) =>
                  /\ attempt[t] \in 1..batch_max_retries
                  /\ idx[t] \in 1..Len(message_batch)
                  /\ LET m == message_batch[idx[t]]
                     IN  \/ /\ broker' = Append(broker, m)
                            /\ dropped' = dropped
                            /\ FlushMovesOn(t)
                         \/ /\ broker' = broker /\ dropped' = dropped
                            /\ attempt[t] < batch_max_retries
                            /\ pc'[t] = "retry_sleep"
                            /\ idx'[t] = idx[t] /\ attempt'[t] = attempt[t]
                            /\ message_batch' = message_batch
                         \/ /\ broker' = broker
                            /\ dropped' = dropped \cup {m}
                            /\ FlushMovesOn(t)
            /\ (pc[t] = "lock" /\ pc'[t] = "publish") =>
                  /\ idx'[t] = 1 /\ attempt'[t] = 1
                  /\ message_batch' # <<>>
            /\ (pc[t] = "retry_sleep" /\ pc'[t] # pc[t]) =>
                  /\ pc'[t] = "publish"
                  /\ idx'[t] = idx[t] /\ attempt'[t] = attempt[t] + 1
                  /\ message_batch' = message_batch
            /\ (pc[t] \in {"publish", "retry_sleep"} /\ ~AttemptStep(t)) =>
                  /\ idx'[t] = idx[t]
                  /\ message_batch' = message_batch
       /\ \A i \in 1..Len(flushes') : \A m \in Range(flushes'[i].msgs) :
            \/ TimesIn(broker', m) = 1 /\ m \notin dropped'
            \/ TimesIn(broker', m) = 0 /\ m \in dropped']_vars

\* C27 witness: a flush of two messages has finished; it gave up on the
\* first after its attempts failed and then published the second.
C27_Witness ==
    \E i \in 1..Len(flushes) :
        /\ Len(flushes[i].msgs) = 2
        /\ flushes[i].msgs[1] \in dropped
        /\ flushes[i].msgs[2] \in Range(broker)

\* C28: with any callers of publish_message and the flush timer running
\* concurrently, and every publish attempt and sleep terminating, every
\* publish_message call eventually returns, the ones that flush while
\* holding the lock included, and a lock that is held is eventually
\* released.
C28_PublishReturns ==
    /\ \A c \in Callers : InCall(c) ~> (pc[c] = "idle")
    /\ (batch_lock # "free") ~> (batch_lock = "free")

\* C28 witness: after an earlier flush has finished and released the lock,
\* a caller is flushing from inside publish_message with the lock held
\* while the other caller and the flush timer wait for the lock.
C28_Witness ==
    /\ flushes # <<>>
    /\ \E c \in Callers :
          /\ batch_lock = c /\ call[c].reached
          /\ pc[c] \in {"publish", "retry_sleep"}
          /\ \A t \in Tasks \ {c} : pc[t] = "lock"

\* flush i gave up on a message and no flush before it did: with the
\* broker going down only while a flush is in progress, it is a flush
\* during which the connection was lost
FirstGivingUp(i) ==
    /\ \E m \in Range(flushes[i].msgs) : m \in dropped
    /\ \A j \in 1..(i - 1) : \A m \in Range(flushes[j].msgs) : m \notin dropped

\* C29: a message whose publish attempts failed because the connection was
\* lost, or was being replaced, while its flush was in progress is not
\* discarded: when the flush is over the message is at the broker or still
\* in the buffer, for the next flush to retry it.
C29_LostPoolMessageKept ==
    \A i \in 1..Len(flushes) :
        FirstGivingUp(i) =>
            \A m \in Range(flushes[i].msgs) :
                m \in dropped => (m \in Range(message_batch) \/ m \in Range(broker))

\* the loops of one kind that are running
RunningOf(kind) == {i \in Running : kinds[i] = kind}

\* C30: at every moment at most one flush-timer loop and at most one
\* connection-monitor loop are running, also after the monitor has found
\* the connection lost and has reconnected.
C30_OneLoopOfEachKind ==
    /\ Cardinality(RunningOf("batch")) <= 1
    /\ Cardinality(RunningOf("monitor")) <= 1

\* the fields of a stored notification that are written at creation only
Immutable(doc) ==
    [id |-> doc.id, user_id |-> doc.user_id, type |-> doc.type,
     title |-> doc.title, message |-> doc.message,
     created_at |-> doc.created_at, max_retries |-> doc.max_retries,
     metadata |-> doc.metadata]

\* the step is the retry step of a failed delivery of notification id
RetryStepFor(id) ==
    /\ ProcessStep
    /\ last'.id = id
    /\ last'.transport \in {"refused", "error"}
    /\ last'.rc < service_max_retries
    /\ last'.wrote = "retry"

\* C31: no step changes a stored notification's id, user_id, type, title,
\* message, created_at, max_retries or metadata, and its retry_count is
\* changed only by the retry step of a failed delivery attempt: not by a
\* delivery that succeeds, not by marking it failed, not by update_status.
C31_FrameEffect ==
    [][\A id \in DOMAIN store :
          /\ id \in DOMAIN store'
          /\ Immutable(store'[id]) = Immutable(store[id])
          /\ store'[id].retry_count # store[id].retry_count => RetryStepFor(id)]_vars

\* C31 witness: update_status has changed the status of a notification
\* whose delivery had failed once, and left its retry_count at one.
C31_Witness ==
    /\ last.op = "update_status" /\ last.ret = "ok"
    /\ last.id \in DOMAIN store
    /\ store[last.id].retry_count = 1
    /\ store[last.id].status = "sent"
    /\ sends[last.id] = 1 /\ delivered[last.id] = 0

\* the step is a call of update_status on an id that is in the store,
\* whose update_one does not raise
UpdatesPresent ==
    /\ UpdateStep
    /\ last'.id \in DOMAIN store
    /\ last'.wrote # "raised"

\* C32: update_status(id, s) on an id that is in the store does not fail
\* with not-found, whatever the current status and the new status s, equal
\* to the current one or not: it returns the record, with status s, with
\* sent_at set iff s = sent and failed_at set iff s = failed.
C32_UpdateStatusOnPresent ==
    [][UpdatesPresent =>
        /\ last'.ret = "ok"
        /\ Len(result') = 1
        /\ result'[1].id = last'.id
        /\ result'[1].status = store'[last'.id].status
        /\ last'.wrote \in Statuses => result'[1].status = last'.wrote
        /\ IsSet(result'[1].sent_at) <=> result'[1].status = "sent"
        /\ IsSet(result'[1].failed_at) <=> result'[1].status = "failed"]_vars

\* C33: the messages at the broker are in the order in which
\* publish_message accepted them (the order of their timestamps), within
\* one flush and across flushes, with callers and the flush timer
\* interleaved in every way; messages given up on are missing from it.
C33_BrokerOrder ==
    \A i \in 1..Len(broker) : \A j \in 1..Len(broker) :
        i < j => broker[i].timestamp < broker[j].timestamp

\* C33 witness: a flush made by a caller and a flush made by the timer have
\* both published, and a message accepted between two messages that are at
\* the broker was given up on.
C33_Witness ==
    /\ \E i \in 1..Len(flushes) : \E j \in 1..Len(flushes) :
          /\ i < j
          /\ flushes[i].by \in Callers /\ flushes[j].by = Timer
          /\ \E m \in Range(flushes[i].msgs) : m \in Range(broker)
          /\ \E m \in Range(flushes[j].msgs) : m \in Range(broker)
    /\ \E m \in dropped :
          /\ broker[1].timestamp < m.timestamp
          /\ m.timestamp < broker[Len(broker)].timestamp

\* C34: every message accepted by publish_message is published to the
\* broker at most once, with size-triggered flushes, timer flushes and a
\* flush cancelled by close while it is in progress interleaved in every
\* way.
C34_AtMostOnce ==
    \A i \in 1..Len(broker) : \A j \in 1..Len(broker) :
        i # j => broker[i] # broker[j]

\* C35: whenever the buffer lock is free the buffer holds fewer than
\* BatchSize messages, and the buffer never holds more than BatchSize
\* messages.
C35_BufferBounded ==
    /\ batch_lock = "free" => Len(message_batch) < BatchSize
    /\ Len(message_batch) <= BatchSize

\* C35 witness: after a flush has finished, the lock is free and the
\* buffer is one message short of the batch size.
C35_Witness ==
    /\ flushes # <<>>
    /\ batch_lock = "free"
    /\ Len(message_batch) = BatchSize - 1
====
